---- MODULE Spec2Model ----
(***************************************************************************)
(* Conv2D and MaxPool2D of core/layers.py as a state machine.              *)
(*                                                                         *)
(* A tensor is a record [shape, data]: shape is the tuple of its axis      *)
(* sizes and data its elements in row-major (C) order, which is the order  *)
(* numpy's reshape, transpose and slicing are defined on.  Indices are     *)
(* 0-based as in the source; data[k + 1] holds flat index k.               *)
(***************************************************************************)
EXTENDS Integers, Sequences, FiniteSets, TLC

\* ------------------------------------------------------------------ bounds
\* largest input height / width drawn for a forward call
MaxDim == 2
\* largest kernel height / width of a Conv2D
MaxK == 2
\* largest input height / width drawn for a MaxPool2D forward call
MaxPoolDim == 3
\* largest kernel height / width handed to Conv2D._get_padding on its own
MaxPadK == 6

Batches == {2}
Channels == 1..2
Strides == 1..2
Modes == {"FULL", "SAME", "VALID"}
PoolModes == {"SAME", "VALID"}

\* ------------------------------------------------------------ python values
None == [tag |-> "None"]
\* the empty dict {}
EmptyDict == <<>>
Raise(exc) == [tag |-> "raise", exc |-> exc]
IsRaise(v) == "tag" \in DOMAIN v /\ v.tag = "raise"

Max2(a, b) == IF a >= b THEN a ELSE b
Min2(a, b) == IF a <= b THEN a ELSE b


\* int(num / den) for den > 0: truncation toward zero of the float quotient
PyInt(num, den) == IF num >= 0 THEN num \div den ELSE -((-num) \div den)

\* len(range(0, stop, step))
RangeLen(stop, step) == IF stop <= 0 THEN 0 ELSE (stop + step - 1) \div step

RECURSIVE SumTo(_, _)
\* sum of f[0] .. f[n-1]
SumTo(f, n) == IF n <= 0 THEN 0 ELSE f[n - 1] + SumTo(f, n - 1)

RECURSIVE Prod(_)
Prod(s) == IF Len(s) = 0 THEN 1 ELSE Head(s) * Prod(Tail(s))

\* ------------------------------------------------------------------ tensors
Size(t) == Prod(t.shape)
At(t, k) == t.data[k + 1]
Flat4(shape, n, h, w, c) == ((n * shape[2] + h) * shape[3] + w) * shape[4] + c
At4(t, n, h, w, c) == At(t, Flat4(t.shape, n, h, w, c))
At2(t, r, c) == At(t, r * t.shape[2] + c)

\* the multi-index of flat index k in a 4-axis shape
Unflat4(shape, k) ==
    [n |-> k \div (shape[2] * shape[3] * shape[4]),
     h |-> (k \div (shape[3] * shape[4])) % shape[2],
     w |-> (k \div shape[4]) % shape[3],
     c |-> k % shape[4]]

\* an array's elements are computed once, when the array is built: comparing
\* the function with itself makes the model checker enumerate it
Stored(f) == IF f = f THEN f ELSE f

\* the 4-axis tensor whose element (n,h,w,c) is F(n,h,w,c)
Mk4(shape, F(_, _, _, _)) ==
    [shape |-> shape,
     data |-> Stored([k \in 1..Prod(shape) |->
                         LET i == Unflat4(shape, k - 1) IN F(i.n, i.h, i.w, i.c)])]

\* the 2-axis tensor whose element (r,c) is F(r,c)
Mk2(rows, cols, F(_, _)) ==
    [shape |-> <<rows, cols>>,
     data |-> Stored([k \in 1..(rows * cols) |-> F((k - 1) \div cols, (k - 1) % cols)])]

\* a.reshape(shape): same elements in the same row-major order
Reshape(t, shape) ==
    IF Prod(shape) = Size(t) THEN [shape |-> shape, data |-> t.data]
    ELSE Raise("ValueError")

\* A @ B for 2-axis tensors
MatMul(A, B) ==
    Mk2(A.shape[1], B.shape[2],
        LAMBDA r, c : SumTo([k \in 0..(A.shape[2] - 1) |-> At2(A, r, k) * At2(B, k, c)],
                            A.shape[2]))

\* A.T for a 2-axis tensor
Transpose2(A) == Mk2(A.shape[2], A.shape[1], LAMBDA r, c : At2(A, c, r))

Clamp(v, lo, hi) == Max2(lo, Min2(v, hi))

\* np.pad(t, ((0,0),(pad[1],pad[2]),(pad[3],pad[4]),(0,0)), mode="edge")
NpPadEdge(t, pad) ==
    Mk4(<<t.shape[1], t.shape[2] + pad[1] + pad[2], t.shape[3] + pad[3] + pad[4], t.shape[4]>>,
        LAMBDA n, h, w, c : At4(t, n, Clamp(h - pad[1], 0, t.shape[2] - 1),
                                   Clamp(w - pad[3], 0, t.shape[3] - 1), c))

\* np.pad(t, ((0,0),(pad[1],pad[2]),(pad[3],pad[4]),(0,0)), mode="constant")
NpPadConstant(t, pad) ==
    Mk4(<<t.shape[1], t.shape[2] + pad[1] + pad[2], t.shape[3] + pad[3] + pad[4], t.shape[4]>>,
        LAMBDA n, h, w, c :
            IF /\ h >= pad[1] /\ h < pad[1] + t.shape[2]
               /\ w >= pad[3] /\ w < pad[3] + t.shape[3]
            THEN At4(t, n, h - pad[1], w - pad[3], c)
            ELSE 0)

\* t[:, h0:h1, w0:w1, :] with Python's clipping of the slice ends
Slice4(t, h0, h1, w0, w1) ==
    LET a0 == Min2(h0, t.shape[2])
        a1 == Max2(a0, Min2(h1, t.shape[2]))
        b0 == Min2(w0, t.shape[3])
        b1 == Max2(b0, Min2(w1, t.shape[3]))
    IN Mk4(<<t.shape[1], a1 - a0, b1 - b0, t.shape[4]>>,
           LAMBDA n, h, w, c : At4(t, n, a0 + h, b0 + w, c))

\* ------------------------------------------------------ Conv2D._get_padding
\* _get_padding without the extra bottom/right pixel of an even kernel
get_padding_symmetric(ks, mode) ==
    IF mode = "FULL" THEN <<ks[1] - 1, ks[2] - 1, ks[1] - 1, ks[2] - 1>>
    ELSE IF mode = "VALID" THEN <<0, 0, 0, 0>>
    ELSE IF mode = "SAME" THEN
        <<(ks[1] - 1) \div 2, (ks[1] - 1) \div 2, (ks[2] - 1) \div 2, (ks[2] - 1) \div 2>>
    ELSE None

\* (top, bottom, left, right) for kernel size ks = <<k_h, k_w>>
get_padding(ks, mode) ==
    IF mode = "FULL" THEN <<ks[1] - 1, ks[2] - 1, ks[1] - 1, ks[2] - 1>>
    ELSE IF mode = "VALID" THEN <<0, 0, 0, 0>>
    ELSE IF mode = "SAME" THEN
        <<(ks[1] - 1) \div 2, (ks[1] - 1) \div 2 + (IF ks[1] % 2 = 0 THEN 1 ELSE 0),
          (ks[2] - 1) \div 2, (ks[2] - 1) \div 2 + (IF ks[2] % 2 = 0 THEN 1 ELSE 0)>>
    ELSE None

\* -------------------------------------------------------------------- state
VARIABLES
    name,           \* Layer.name: "Conv2D", "MaxPooling2D"
    kernel,         \* Conv2D.kernel <<k_h, k_w, in_c, out_c>>
    pool_size,      \* MaxPool2D.pool_size <<pool_h, pool_w>>
    stride,         \* stride <<s_h, s_w>>
    padding_mode,   \* padding mode string
    initializers,   \* Conv2D.initializers: the kinds of w_init and b_init
    is_init,        \* Conv2D.is_init
    params,         \* Layer.params
    grads,          \* Layer.grads
    cache,          \* the layer's forward cache, None before the first forward
    call,           \* the latest call: its operation, the channel count of its
                    \* argument and its outcome (the tensor returned or the exception)
    fwd_in,         \* argument of the latest forward that returned
    bwd_in,         \* argument of the latest backward
    n_init          \* number of _init_parameters calls so far

vars == <<name, kernel, pool_size, stride, padding_mode, initializers, is_init,
          params, grads, cache, call, fwd_in, bwd_in, n_init>>

config == <<name, kernel, pool_size, stride, padding_mode, initializers>>

\* ------------------------------------------------------------- initializers
\* An initializer is a capability init(shape) -> tensor; the two kinds drawn
\* here return 1, 2, 3, ... in row-major order ("ramp"), or a single 1 at the
\* first element and 0 elsewhere for w_init ("unit") with an all-zero bias.
Initialize(kind, shape) ==
    [shape |-> shape,
     data |-> [k \in 1..Prod(shape) |->
                  IF kind = "ramp" THEN k
                  ELSE IF kind = "unit" THEN (IF k = 1 THEN 1 ELSE 0)
                  ELSE 0]]

InitializerKinds == {[w |-> "ramp", b |-> "ramp"]}

\* Conv2D._init_parameters
init_parameters ==
    [w |-> Initialize(initializers.w, kernel),
     b |-> Initialize(initializers.b, <<kernel[4]>>)]

\* the lazy initialization re-run by every forward
lazy_init_always == [params |-> init_parameters, n_init |-> n_init + 1]

\* forward's lazy initialization: the parameters and the count of
\* _init_parameters calls after "if not self.is_init: self._init_parameters()"
lazy_init ==
    IF ~is_init THEN [params |-> init_parameters, n_init |-> n_init + 1]
    ELSE [params |-> params, n_init |-> n_init]

\* ----------------------------------------------------------- Conv2D.forward
\* im2col laying a patch out column by column (kernel width before height)
im2col_column_major(padded, k_h, k_w, s_h, s_w, ker_len, n_rows, n_cols) ==
    LET pshape == <<padded.shape[1], k_w, k_h, padded.shape[4]>>
        R == Prod(pshape) \div ker_len
    IN Mk2(R * n_rows * n_cols, ker_len,
           LAMBDA r, q :
               LET b == r \div (n_rows * n_cols)
                   i == (r \div n_cols) % n_rows
                   j == r % n_cols
                   e == Unflat4(pshape, b * ker_len + q)
               IN At4(padded, e.n, i * s_h + e.w, j * s_w + e.h, e.c))

\* The patch matrix of forward: the patch at output position (i, j) is
\* padded[:, i*s_h : i*s_h+k_h, j*s_w : j*s_w+k_w, :], reshaped to
\* (-1, ker_len); the patches are stacked to (n_rows, n_cols, R, ker_len),
\* transposed to (R, n_rows, n_cols, ker_len) and reshaped to (-1, ker_len).
im2col(padded, k_h, k_w, s_h, s_w, ker_len, n_rows, n_cols) ==
    LET pshape == <<padded.shape[1], k_h, k_w, padded.shape[4]>>
        R == Prod(pshape) \div ker_len
    IN Mk2(R * n_rows * n_cols, ker_len,
           LAMBDA r, q :
               LET b == r \div (n_rows * n_cols)
                   i == (r \div n_cols) % n_rows
                   j == r % n_cols
                   e == Unflat4(pshape, b * ker_len + q)
               IN At4(padded, e.n, i * s_h + e.h, j * s_w + e.w, e.c))

\* outputs += params["b"]: the bias is broadcast over the last axis
AddBias(t, b) ==
    [shape |-> t.shape,
     data |-> Stored([k \in 1..Size(t) |-> t.data[k] + At(b, (k - 1) % t.shape[4])])]

\* The outcome of Conv2D.forward(inputs) with parameters p (after the lazy
\* initialization): [ret, cache], where ret is the returned tensor or the
\* exception raised, and cache the value assigned to self.cache (the old one
\* when the call raises before line 152).
conv_forward(inputs, p) ==
    LET k_h == kernel[1]
        k_w == kernel[2]
        s_h == stride[1]
        s_w == stride[2]
        pad == get_padding(<<k_h, k_w>>, padding_mode)
        padded == NpPadEdge(inputs, pad)
        in_n == inputs.shape[1]
        in_h == inputs.shape[2]
        in_w == inputs.shape[3]
        in_c == inputs.shape[4]
        padded_h == padded.shape[2]
        padded_w == padded.shape[3]
        out_h == PyInt(padded_h - k_h + s_h, s_h)
        out_w == PyInt(padded_w - k_w + s_w, s_w)
        out_c == kernel[4]
        ker_len == p.w.shape[1] * p.w.shape[2] * p.w.shape[3]
        n_rows == RangeLen(padded_h - k_h + 1, s_h)
        n_cols == RangeLen(padded_w - k_w + 1, s_w)
        patch_size == in_n * k_h * k_w * in_c
        X_matrix == im2col(padded, k_h, k_w, s_h, s_w, ker_len, n_rows, n_cols)
        W_matrix == Reshape(p.w, <<ker_len, Size(p.w) \div ker_len>>)
        product == MatMul(X_matrix, W_matrix)
        outputs == Reshape(product, <<in_n, out_h, out_w, out_c>>)
    IN IF n_rows = 0 \/ n_cols = 0
       THEN \* no patch: transpose([2, 0, 1, 3]) of an array without 4 axes
            [ret |-> Raise("ValueError"), cache |-> cache]
       ELSE IF patch_size % ker_len # 0
       THEN \* patch.reshape(-1, ker_len) of a patch of another channel count
            [ret |-> Raise("ValueError"), cache |-> cache]
       ELSE IF out_h < 0 \/ out_w < 0 \/ IsRaise(outputs)
       THEN [ret |-> Raise("ValueError"), cache |-> cache]
       ELSE [ret |-> AddBias(outputs, p.b),
             cache |-> [in_n |-> in_n, in_img_size |-> <<in_h, in_w, in_c>>,
                        kernel_size |-> <<k_h, k_w, in_c>>, stride |-> <<s_h, s_w>>,
                        pad |-> pad, pad_img_size |-> <<padded_h, padded_w, in_c>>,
                        out_img_size |-> <<out_h, out_w, out_c>>,
                        X_matrix |-> X_matrix, W_matrix |-> W_matrix]]

\* ------------------------------------------------------------------ inputs
\* the tensor of a shape holding base+1, base+2, ... in row-major order
Ramp(shape, base) == [shape |-> shape, data |-> [k \in 1..Prod(shape) |-> base + k]]

\* the tensor of a shape holding v everywhere
Const(shape, v) == [shape |-> shape, data |-> [k \in 1..Prod(shape) |-> v]]

ConvInputs ==
    {Ramp(<<n, h, w, c>>, 0) : n \in Batches, h \in 1..MaxDim, w \in 1..MaxDim, c \in Channels}

\* Conv2D.forward as a step
ConvForward ==
    /\ name = "Conv2D"
    /\ \E inputs \in ConvInputs :
         LET p == lazy_init
             r == conv_forward(inputs, p.params)
         IN /\ is_init' = TRUE
            /\ params' = p.params
            /\ n_init' = p.n_init
            /\ cache' = r.cache
            /\ call' = [op |-> "forward", in_c |-> inputs.shape[4], ret |-> r.ret]
            /\ fwd_in' = IF IsRaise(r.ret) THEN fwd_in ELSE inputs
    /\ UNCHANGED <<config, grads, bwd_in>>

\* ---------------------------------------------------------- Conv2D.backward
\* the input gradient of backward before the padding is cut off: every patch
\* d_X_matrix[:, i, j, :].reshape((in_n, k_h, k_w, in_c)) is added into
\* d_in[:, i*s_h : i*s_h+k_h, j*s_w : j*s_w+k_w, :]
col2im(d_X, c) ==
    LET in_n == c.in_n
        in_c == c.in_img_size[3]
        k_h == c.kernel_size[1]
        k_w == c.kernel_size[2]
        s_h == c.stride[1]
        s_w == c.stride[2]
        padded_h == c.pad_img_size[1]
        padded_w == c.pad_img_size[2]
        n_rows == RangeLen(padded_h - k_h + 1, s_h)
        n_cols == RangeLen(padded_w - k_w + 1, s_w)
        pshape == <<in_n, k_h, k_w, in_c>>
    IN Mk4(<<in_n, padded_h, padded_w, in_c>>,
           LAMBDA n, h, w, ch :
               SumTo([k \in 0..(n_rows * n_cols - 1) |->
                        LET i == k \div n_cols
                            j == k % n_cols
                            a == h - i * s_h
                            b == w - j * s_w
                        IN IF a >= 0 /\ a < k_h /\ b >= 0 /\ b < k_w
                           THEN At4(d_X, n, i, j, Flat4(pshape, 0, a, b, ch))
                           ELSE 0],
                     n_rows * n_cols))

\* np.sum(grad, axis=(0, 1, 2))
SumLeading(grad) ==
    LET out_c == grad.shape[4]
        rows == Size(grad) \div out_c
    IN [shape |-> <<out_c>>,
        data |-> [o \in 1..out_c |->
                     SumTo([r \in 0..(rows - 1) |-> At(grad, r * out_c + o - 1)], rows)]]

\* backward adding into the gradient map of the previous backward
conv_param_grads_accumulate(grad, c, p) ==
    LET out_c == c.out_img_size[3]
        d_w == MatMul(Transpose2(c.X_matrix),
                      Reshape(grad, <<Size(grad) \div out_c, out_c>>))
        b == SumLeading(grad)
    IN IF grads = EmptyDict
       THEN [w |-> Reshape(d_w, p.w.shape), b |-> b]
       ELSE [w |-> [shape |-> p.w.shape,
                    data |-> [k \in 1..Size(p.w) |-> grads.w.data[k] + d_w.data[k]]],
             b |-> [shape |-> b.shape,
                    data |-> [k \in 1..Size(b) |-> grads.b.data[k] + b.data[k]]]]

\* the gradient map written by backward(grad) with cache c
conv_param_grads(grad, c, p) ==
    LET out_c == c.out_img_size[3]
        d_w == MatMul(Transpose2(c.X_matrix),
                      Reshape(grad, <<Size(grad) \div out_c, out_c>>))
    IN [w |-> Reshape(d_w, p.w.shape), b |-> SumLeading(grad)]

\* the tensor returned by backward(grad) with cache c
conv_input_grad(grad, c) ==
    LET out_c == c.out_img_size[3]
        ker_len == c.W_matrix.shape[1]
        d_X_2 == MatMul(Reshape(grad, <<Size(grad) \div out_c, out_c>>),
                        Transpose2(c.W_matrix))
        d_X_matrix == Reshape(d_X_2, <<grad.shape[1], grad.shape[2], grad.shape[3], ker_len>>)
        d_in == col2im(d_X_matrix, c)
        pad == c.pad
    IN Slice4(d_in, pad[1], c.pad_img_size[1] - pad[2], pad[3], c.pad_img_size[2] - pad[4])

\* the gradients a caller passes after a forward: of the output's shape
Grads(shape) == {Ramp(shape, 0)}

\* backward returning silently, with an empty gradient map, when no forward
\* has filled the cache
ConvBackwardSilent ==
    /\ name = "Conv2D"
    /\ IF cache = None
       THEN /\ call' = [op |-> "backward", in_c |-> 0, ret |-> None]
            /\ grads' = [w |-> None, b |-> None]
            /\ UNCHANGED bwd_in
       ELSE \E grad \in Grads(<<cache.in_n, cache.out_img_size[1],
                                 cache.out_img_size[2], cache.out_img_size[3]>>) :
              /\ grads' = conv_param_grads(grad, cache, params)
              /\ call' = [op |-> "backward", in_c |-> grad.shape[4],
                          ret |-> conv_input_grad(grad, cache)]
              /\ bwd_in' = grad
    /\ UNCHANGED <<config, is_init, params, cache, fwd_in, n_init>>

\* Conv2D.backward as a step; with no cache, self.cache["in_n"] raises
ConvBackward ==
    /\ name = "Conv2D"
    /\ IF cache = None
       THEN /\ call' = [op |-> "backward", in_c |-> 0, ret |-> Raise("TypeError")]
            /\ UNCHANGED <<grads, bwd_in>>
       ELSE \E grad \in Grads(<<cache.in_n, cache.out_img_size[1],
                                 cache.out_img_size[2], cache.out_img_size[3]>>) :
              /\ grads' = conv_param_grads(grad, cache, params)
              /\ call' = [op |-> "backward", in_c |-> grad.shape[4],
                          ret |-> conv_input_grad(grad, cache)]
              /\ bwd_in' = grad
    /\ UNCHANGED <<config, is_init, params, cache, fwd_in, n_init>>

InitConv ==
    /\ name = "Conv2D"
    /\ kernel \in (1..MaxK) \X (1..MaxK) \X Channels \X Channels
    /\ stride \in Strides \X Strides
    /\ padding_mode \in Modes
    /\ initializers \in InitializerKinds
    /\ pool_size = None
    /\ is_init = FALSE
    /\ params = EmptyDict
    /\ grads = EmptyDict
    /\ cache = None
    /\ call = [op |-> "__init__", in_c |-> 0, ret |-> None]
    /\ fwd_in = None
    /\ bwd_in = None
    /\ n_init = 0

\* ---------------------------------------------------- MaxPool2D._get_padding
\* MaxPool2D._get_padding_1d
get_padding_1d(input_size, pool, strd, mode) ==
    LET r == input_size % strd
        n_pad == IF mode = "SAME"
                 THEN (IF r = 0 THEN Max2(pool - strd, 0) ELSE Max2(pool, strd) - r)
                 ELSE 0
        half == n_pad \div 2
    IN IF n_pad % 2 = 0 THEN <<half, half>> ELSE <<half, half + 1>>

\* MaxPool2D._get_padding: h_pad + w_pad
pool_get_padding(input_size, pool, strd, mode) ==
    get_padding_1d(input_size[1], pool[1], strd[1], mode)
        \o get_padding_1d(input_size[2], pool[2], strd[2], mode)

\* -------------------------------------------------------- MaxPool2D.forward
\* The loop's k-th window (row-major over the two ranges) is
\* padded[:, col:col+pool_h, row:row+pool_w, :], clipped at the tensor's end
\* to `hgt` rows and `wid` columns, and reshaped to (in_n, hgt*wid, in_c).
PoolWindow(padded, k, n_cols, pool, strd) ==
    LET col == (k \div n_cols) * strd[1]
        row == (k % n_cols) * strd[2]
    IN [col |-> col, row |-> row,
        hgt |-> Min2(pool[1], padded.shape[2] - col),
        wid |-> Min2(pool[2], padded.shape[3] - row)]

\* element (n, q, c) of the reshaped window
WindowAt(padded, win, n, q, c) ==
    At4(padded, n, win.col + (q \div win.wid), win.row + (q % win.wid), c)

RECURSIVE MaxUpTo(_, _, _, _, _)
\* the maximum of elements 0..q of the window for (n, c)
MaxUpTo(padded, win, n, c, q) ==
    IF q = 0 THEN WindowAt(padded, win, n, 0, c)
    ELSE Max2(MaxUpTo(padded, win, n, c, q - 1), WindowAt(padded, win, n, q, c))

\* np.max(pool, axis=1)[n, c]
WindowMax(padded, win, n, c) == MaxUpTo(padded, win, n, c, win.hgt * win.wid - 1)

RECURSIVE FirstAt(_, _, _, _, _, _)
\* the lowest index q >= from of the window for (n, c) holding m
FirstAt(padded, win, n, c, m, from) ==
    IF WindowAt(padded, win, n, from, c) = m THEN from
    ELSE FirstAt(padded, win, n, c, m, from + 1)

\* np.argmax(pool, axis=1)[n, c]: the first index holding the maximum
WindowArgmax(padded, win, n, c) ==
    FirstAt(padded, win, n, c, WindowMax(padded, win, n, c), 0)

\* The outcome of MaxPool2D.forward(inputs): [ret, cache]
pool_forward(inputs) ==
    LET in_n == inputs.shape[1]
        in_h == inputs.shape[2]
        in_w == inputs.shape[3]
        in_c == inputs.shape[4]
        pad == pool_get_padding(<<in_h, in_w>>, pool_size, stride, padding_mode)
        padded == NpPadConstant(inputs, pad)
        pad_h == padded.shape[2]
        pad_w == padded.shape[3]
        s_h == stride[1]
        s_w == stride[2]
        out_h == pad_h \div s_h
        out_w == pad_w \div s_w
        n_rows == RangeLen(pad_h, s_h)
        n_cols == RangeLen(pad_w, s_w)
        oshape == <<in_n, out_h, out_w, in_c>>
        \* np.array(list).transpose((1, 0, 2)).reshape((in_n, out_h, out_w, in_c)):
        \* element (n, i, j, c) is element (n, c) of list entry i*out_w + j
        outputs == Mk4(oshape, LAMBDA n, i, j, c :
                        WindowMax(padded,
                                  PoolWindow(padded, i * out_w + j, n_cols, pool_size, stride),
                                  n, c))
        max_pos == Mk4(oshape, LAMBDA n, i, j, c :
                        WindowArgmax(padded,
                                     PoolWindow(padded, i * out_w + j, n_cols, pool_size, stride),
                                     n, c))
    IN IF n_rows * n_cols # out_h * out_w
       THEN \* reshape of n_rows*n_cols windows to (in_n, out_h, out_w, in_c)
            [ret |-> Raise("ValueError"), cache |-> cache]
       ELSE [ret |-> outputs,
             cache |-> [in_n |-> in_n, in_img_size |-> <<in_h, in_w, in_c>>,
                        stride |-> <<s_h, s_w>>, pad |-> <<pad_h, pad_w>>,
                        pool |-> pool_size, max_pos |-> max_pos,
                        out_img_size |-> <<out_h, out_w, in_c>>]]

\* ------------------------------------------------------- MaxPool2D.backward
\* the windows of the loop of backward that cover padded cell (h, w)
Covering(c, h, w) ==
    LET n_rows == RangeLen(c.pad[1], c.stride[1])
        n_cols == RangeLen(c.pad[2], c.stride[2])
    IN {k \in 0..(n_rows * n_cols - 1) :
          LET col == (k \div n_cols) * c.stride[1]
              row == (k % n_cols) * c.stride[2]
          IN /\ h >= col /\ h < col + c.pool[1]
             /\ w >= row /\ w < row + c.pool[2]}

\* is the k-th window's destination d_in[:, col:col+pool_h, row:row+pool_w, :]
\* smaller than the (pool_h, pool_w) region assigned to it
Clipped(c, k) ==
    LET n_cols == RangeLen(c.pad[2], c.stride[2])
        col == (k \div n_cols) * c.stride[1]
        row == (k % n_cols) * c.stride[2]
    IN col + c.pool[1] > c.pad[1] \/ row + c.pool[2] > c.pad[2]

\* the tensor returned by MaxPool2D.backward(grad) with cache c, or the
\* exception of the assignment of a region to a smaller destination
pool_backward(grad, c) ==
    LET n_rows == RangeLen(c.pad[1], c.stride[1])
        n_cols == RangeLen(c.pad[2], c.stride[2])
    IN IF \E k \in 0..(n_rows * n_cols - 1) : Clipped(c, k)
       THEN Raise("ValueError")
       ELSE Mk4(<<c.in_n, c.pad[1], c.pad[2], c.in_img_size[3]>>,
                LAMBDA n, h, w, ch :
                    LET ks == Covering(c, h, w)
                    IN IF ks = {} THEN 0
                       ELSE LET k == CHOOSE x \in ks : \A y \in ks : y <= x
                                i == k \div n_cols
                                j == k % n_cols
                                a == h - i * c.stride[1]
                                b == w - j * c.stride[2]
                            IN IF At4(c.max_pos, n, i, j, ch) = a * c.pool[2] + b
                               THEN At4(grad, n, i, j, ch)
                               ELSE 0)

PoolInputs ==
    UNION {{Ramp(<<n, h, w, c>>, 0), Const(<<n, h, w, c>>, 1)} :
              n \in {1}, h \in 1..MaxPoolDim, w \in 1..MaxPoolDim, c \in {2}}

PoolGrads(shape) == {Const(shape, 1), Ramp(shape, 1)}

\* MaxPool2D.forward as a step
PoolForward ==
    /\ name = "MaxPooling2D"
    /\ \E inputs \in PoolInputs :
         LET r == pool_forward(inputs)
         IN /\ cache' = r.cache
            /\ call' = [op |-> "forward", in_c |-> inputs.shape[4], ret |-> r.ret]
            /\ fwd_in' = IF IsRaise(r.ret) THEN fwd_in ELSE inputs
    /\ UNCHANGED <<config, is_init, params, grads, bwd_in, n_init>>

\* MaxPool2D.backward as a step; with no cache, self.cache["in_n"] raises
PoolBackward ==
    /\ name = "MaxPooling2D"
    /\ IF cache = None
       THEN /\ call' = [op |-> "backward", in_c |-> 0, ret |-> Raise("TypeError")]
            /\ UNCHANGED bwd_in
       ELSE \E grad \in PoolGrads(<<cache.in_n, cache.out_img_size[1],
                                     cache.out_img_size[2], cache.out_img_size[3]>>) :
              /\ call' = [op |-> "backward", in_c |-> grad.shape[4],
                          ret |-> pool_backward(grad, cache)]
              /\ bwd_in' = grad
    /\ UNCHANGED <<config, is_init, params, grads, cache, fwd_in, n_init>>

InitPool ==
    /\ name = "MaxPooling2D"
    /\ kernel = None
    /\ pool_size \in (1..MaxK) \X (1..MaxK)
    /\ stride \in Strides \X Strides
    /\ padding_mode \in PoolModes
    /\ initializers = None
    /\ is_init = FALSE
    /\ params = EmptyDict
    /\ grads = EmptyDict
    /\ cache = None
    /\ call = [op |-> "__init__", in_c |-> 0, ret |-> None]
    /\ fwd_in = None
    /\ bwd_in = None
    /\ n_init = 0

\* ------------------------------------------------------------ specifications
\* a Conv2D layer under any sequence of forward and backward calls
SpecConv == InitConv /\ [][ConvForward \/ ConvBackward]_vars

\* a Conv2D layer from its construction through its first forward call and
\* the backward calls that follow it
ConvFirstForward == ~is_init /\ ConvForward
SpecConvCall == InitConv /\ [][ConvFirstForward \/ ConvBackward]_vars

\* a MaxPool2D layer under any sequence of forward and backward calls
SpecPool == InitPool /\ [][PoolForward \/ PoolBackward]_vars

\* Conv2D._get_padding on its own, for kernel sizes up to MaxPadK
InitPadding ==
    /\ name = "Conv2D"
    /\ kernel \in (1..MaxPadK) \X (1..MaxPadK) \X {1} \X {1}
    /\ stride = <<1, 1>>
    /\ padding_mode \in Modes
    /\ initializers \in InitializerKinds
    /\ pool_size = None
    /\ is_init = FALSE
    /\ params = EmptyDict
    /\ grads = EmptyDict
    /\ cache = None
    /\ call = [op |-> "__init__", in_c |-> 0, ret |-> None]
    /\ fwd_in = None
    /\ bwd_in = None
    /\ n_init = 0

GetPadding ==
    /\ call.op = "__init__"
    /\ call' = [op |-> "_get_padding", in_c |-> 0,
                ret |-> get_padding(<<kernel[1], kernel[2]>>, padding_mode)]
    /\ UNCHANGED <<config, is_init, params, grads, cache, fwd_in, bwd_in, n_init>>

SpecPadding == InitPadding /\ [][GetPadding]_vars

\* a layer of either class
Init == InitConv \/ InitPool
Next == ConvForward \/ ConvBackward \/ PoolForward \/ PoolBackward
Spec == Init /\ [][Next]_vars

\* a layer of either class on which forward is never called
SpecNoForward == Init /\ [][ConvBackward \/ PoolBackward]_vars

\* ==================================================================== claims
IsConv == name = "Conv2D"
IsPool == name = "MaxPooling2D"
ForwardReturned == call.op = "forward" /\ ~IsRaise(call.ret)
BackwardReturned == call.op = "backward" /\ ~IsRaise(call.ret)

\* element (n, h, w, c) of x padded by edge replication with pads
\* (top, bottom, left, right)
EdgePadded(x, pad, n, h, w, c) ==
    At4(x, n, Clamp(h - pad[1], 0, x.shape[2] - 1), Clamp(w - pad[3], 0, x.shape[3] - 1), c)

\* the sliding-window convolution at output cell (n, i, j, o)
DirectConv(x, p, pad, n, i, j, o) ==
    LET k_h == p.w.shape[1]
        k_w == p.w.shape[2]
        k_c == p.w.shape[3]
    IN At(p.b, o) +
       SumTo([a \in 0..(k_h - 1) |->
          SumTo([b \in 0..(k_w - 1) |->
             SumTo([c \in 0..(k_c - 1) |->
                      EdgePadded(x, pad, n, i * stride[1] + a, j * stride[2] + b, c)
                          * At4(p.w, a, b, c, o)],
                   k_c)],
             k_w)],
          k_h)

\* C1: Conv2D.forward returns the direct sliding-window convolution of the
\* edge-padded input (pads of _get_padding) with the kernel, plus the bias:
\* out[n,i,j,o] = b[o] + sum of P[n, i*sH+a, j*sW+b, c] * w[a,b,c,o].
C1_ForwardIsDirectConvolution ==
    (IsConv /\ ForwardReturned) =>
        LET x == fwd_in
            out == call.ret
            pad == get_padding(<<kernel[1], kernel[2]>>, padding_mode)
        IN /\ out.shape = <<x.shape[1],
                            (x.shape[2] + pad[1] + pad[2] - kernel[1]) \div stride[1] + 1,
                            (x.shape[3] + pad[3] + pad[4] - kernel[2]) \div stride[2] + 1,
                            kernel[4]>>
           /\ \A n \in 0..(out.shape[1] - 1), i \in 0..(out.shape[2] - 1),
                 j \in 0..(out.shape[3] - 1), o \in 0..(out.shape[4] - 1) :
                 At4(out, n, i, j, o) = DirectConv(x, params, pad, n, i, j, o)

\* a forward of a batch through a kernel of more than one row, column, input
\* channel and output channel, on a stride, has returned
C1_Witness ==
    /\ IsConv /\ ForwardReturned
    /\ kernel = <<2, 2, 2, 2>> /\ stride = <<1, 2>> /\ padding_mode = "FULL"
    /\ fwd_in.shape = <<2, 2, 2, 2>>
    /\ call.ret.shape = <<2, 3, 2, 2>>

\* C7: _get_padding returns (0,0,0,0) under VALID, (kH-1, kH-1, kW-1, kW-1)
\* under FULL and, under SAME, floor((k-1)/2) before and floor((k-1)/2) plus
\* one for an even k after, on each axis.
C7_PaddingFormula ==
    call.op = "_get_padding" =>
        LET k_h == kernel[1]
            k_w == kernel[2]
            even(k) == IF k % 2 = 0 THEN 1 ELSE 0
        IN call.ret =
             CASE padding_mode = "VALID" -> <<0, 0, 0, 0>>
               [] padding_mode = "FULL" -> <<k_h - 1, k_h - 1, k_w - 1, k_w - 1>>
               [] padding_mode = "SAME" ->
                    <<(k_h - 1) \div 2, (k_h - 1) \div 2 + even(k_h),
                      (k_w - 1) \div 2, (k_w - 1) \div 2 + even(k_w)>>

\* C8: the output size of Conv2D.forward per axis is
\* floor((in_dim - kernel_dim)/stride) + 1 under VALID and in_dim under SAME
\* with stride 1, for in_dim >= kernel_dim, and the number of patch positions
\* visited on that axis equals it; under SAME every input of the kernel's
\* channel count is accepted.
C8_OutputSize ==
    (IsConv /\ call.op = "forward") =>
        /\ (IsRaise(call.ret) /\ padding_mode = "SAME") => call.in_c # kernel[3]
        /\ ForwardReturned =>
              \A axis \in 1..2 :
                 LET in_dim == fwd_in.shape[axis + 1]
                     k == kernel[axis]
                     s == stride[axis]
                     out == call.ret.shape[axis + 1]
                     visited == RangeLen(cache.pad_img_size[axis] - k + 1, s)
                 IN in_dim >= k =>
                      /\ padding_mode = "VALID" => out = (in_dim - k) \div s + 1
                      /\ (padding_mode = "SAME" /\ s = 1) => out = in_dim
                      /\ padding_mode \in {"VALID", "SAME"} =>
                            /\ visited = out
                            /\ cache.out_img_size[axis] = out

\* a forward under VALID with a stride that does not divide in_dim - kernel_dim
\* has returned, the kernel being even on one axis and odd on the other
C8_Witness ==
    /\ IsConv /\ ForwardReturned
    /\ padding_mode = "VALID" /\ kernel[1] = 2 /\ kernel[2] = 1 /\ stride = <<1, 2>>
    /\ fwd_in.shape[2] = 2 /\ fwd_in.shape[3] = 2
    /\ call.ret.shape[2] = 1 /\ call.ret.shape[3] = 1

\* sum of F(0) .. F(n-1)
SumRange(n, F(_)) == SumTo([k \in 0..(n - 1) |-> F(k)], n)

\* the gradient of sum(g * forward(x)) with respect to x[n, h, w, c]: every
\* output cell (i, j, o) and kernel offset (a, b) whose padded position holds
\* input pixel (h, w), itself or an edge-replicated copy of it, contributes
\* g[n,i,j,o] * w[a,b,c,o]
Adjoint(g, x, p, pad, n, h, w, c) ==
    SumRange(g.shape[2], LAMBDA i :
      SumRange(g.shape[3], LAMBDA j :
        SumRange(p.w.shape[1], LAMBDA a :
          SumRange(p.w.shape[2], LAMBDA b :
            IF /\ Clamp(i * stride[1] + a - pad[1], 0, x.shape[2] - 1) = h
               /\ Clamp(j * stride[2] + b - pad[3], 0, x.shape[3] - 1) = w
            THEN SumRange(g.shape[4], LAMBDA o : At4(g, n, i, j, o) * At4(p.w, a, b, c, o))
            ELSE 0))))

\* C2: the tensor returned by Conv2D.backward(g) is the exact gradient of
\* forward with respect to its input, in every padding mode: it has the
\* input's shape and d_in[n,h,w,c] sums g[n,i,j,o] * w[a,b,c,o] over every
\* padded position holding pixel (h,w), edge-replicated copies included.
C2_BackwardIsAdjoint ==
    (IsConv /\ BackwardReturned) =>
        LET d_in == call.ret
            x == fwd_in
            pad == get_padding(<<kernel[1], kernel[2]>>, padding_mode)
        IN /\ d_in.shape = x.shape
           /\ \A n \in 0..(x.shape[1] - 1), h \in 0..(x.shape[2] - 1),
                 w \in 0..(x.shape[3] - 1), c \in 0..(x.shape[4] - 1) :
                 At4(d_in, n, h, w, c) = Adjoint(bwd_in, x, params, pad, n, h, w, c)

\* C3: each backward(g) replaces the gradient map by values of the latest
\* forward's input: grads["w"][a,b,c,o] = sum over n,i,j of
\* P[n, i*sH+a, j*sW+b, c] * g[n,i,j,o], of the shape of params["w"], and
\* grads["b"][o] = sum over n,i,j of g[n,i,j,o].
C3_ParamGradsFresh ==
    (IsConv /\ BackwardReturned) =>
        LET g == bwd_in
            x == fwd_in
            pad == get_padding(<<kernel[1], kernel[2]>>, padding_mode)
        IN /\ DOMAIN grads = {"w", "b"}
           /\ grads.w.shape = params.w.shape
           /\ grads.b.shape = <<kernel[4]>>
           /\ g.shape[4] = call.in_c
           /\ \A a \in 0..(kernel[1] - 1), b \in 0..(kernel[2] - 1),
                 c \in 0..(kernel[3] - 1), o \in 0..(kernel[4] - 1) :
                 At4(grads.w, a, b, c, o) =
                     SumRange(g.shape[1], LAMBDA n :
                       SumRange(g.shape[2], LAMBDA i :
                         SumRange(g.shape[3], LAMBDA j :
                           EdgePadded(x, pad, n, i * stride[1] + a, j * stride[2] + b, c)
                               * At4(g, n, i, j, o))))
           /\ \A o \in 0..(kernel[4] - 1) :
                 At(grads.b, o) =
                     SumRange(g.shape[1], LAMBDA n :
                       SumRange(g.shape[2], LAMBDA i :
                         SumRange(g.shape[3], LAMBDA j : At4(g, n, i, j, o))))

\* a backward has returned on a batch of two, with a kernel of two rows, two
\* input channels and two output channels under SAME padding
C3_Witness ==
    /\ IsConv /\ BackwardReturned
    /\ kernel = <<2, 1, 2, 2>> /\ padding_mode = "SAME" /\ stride = <<1, 1>>
    /\ fwd_in.shape = <<2, 2, 1, 2>>
    /\ At4(grads.w, 1, 0, 1, 1) # 0

\* C9: _init_parameters runs exactly once, at the first forward; every later
\* forward, whatever the channel count of its input, and every backward,
\* leaves w and b as they are, of the kernel's shape.
C9_InitOnce ==
    [][IsConv =>
         /\ n_init' <= 1
         /\ (~is_init /\ call'.op = "forward") =>
               /\ is_init' /\ n_init' = 1
               /\ params'.w.shape = kernel /\ params'.b.shape = <<kernel[4]>>
         /\ is_init => (is_init' /\ params' = params /\ n_init' = n_init)
         /\ call'.op # "forward" => (is_init' = is_init /\ n_init' = n_init)]_vars

\* after a forward that returned, a forward of an input of another channel
\* count has been called on the initialized layer
C9_Witness ==
    /\ IsConv /\ is_init /\ n_init = 1
    /\ fwd_in # None
    /\ call.op = "forward" /\ call.in_c # kernel[3] /\ call.in_c # fwd_in.shape[4]

\* C10: backward on a layer that holds no forward cache (forward has never
\* been called) raises, and leaves parameters, gradient map and cache as
\* they were.
C10_BackwardBeforeForward ==
    [][(cache = None /\ call'.op = "backward") =>
          /\ IsRaise(call'.ret)
          /\ UNCHANGED <<params, grads, cache, is_init>>]_vars

\* backward has been called on a Conv2D on which forward never was
C10_Witness ==
    /\ IsConv /\ ~is_init /\ n_init = 0
    /\ call.op = "backward" /\ IsRaise(call.ret)
    /\ grads = EmptyDict /\ cache = None

\* the zero-padded input of the latest MaxPool2D.forward that returned
PoolPadded ==
    NpPadConstant(fwd_in, pool_get_padding(<<fwd_in.shape[2], fwd_in.shape[3]>>,
                                           pool_size, stride, padding_mode))

\* the complete pool_h x pool_w window starting at (i*sH, j*sW)
FullWindow(i, j) ==
    [col |-> i * stride[1], row |-> j * stride[2], hgt |-> pool_size[1], wid |-> pool_size[2]]

\* C4: MaxPool2D.forward produces one output cell per window position, each
\* the maximum of the complete pool_h x pool_w window at (i*sH, j*sW) of the
\* zero-padded input, with the lowest row-major flat index attaining it
\* cached; no window is clipped and out_h*out_w windows are visited.
C4_PoolCompleteWindows ==
    (IsPool /\ call.op = "forward") =>
        /\ ~IsRaise(call.ret)
        /\ LET out == call.ret
               padded == PoolPadded
           IN /\ RangeLen(padded.shape[2], stride[1]) * RangeLen(padded.shape[3], stride[2])
                    = out.shape[2] * out.shape[3]
              /\ \A i \in 0..(out.shape[2] - 1), j \in 0..(out.shape[3] - 1) :
                    /\ i * stride[1] + pool_size[1] <= padded.shape[2]
                    /\ j * stride[2] + pool_size[2] <= padded.shape[3]
                    /\ \A n \in 0..(out.shape[1] - 1), c \in 0..(out.shape[4] - 1) :
                          /\ At4(out, n, i, j, c) = WindowMax(padded, FullWindow(i, j), n, c)
                          /\ At4(cache.max_pos, n, i, j, c)
                                = WindowArgmax(padded, FullWindow(i, j), n, c)

\* every window the latest forward visited holds its maximum exactly once
UniqueMaxPerWindow ==
    LET padded == PoolPadded
        n_cols == RangeLen(padded.shape[3], stride[2])
        n_win == RangeLen(padded.shape[2], stride[1]) * n_cols
    IN \A k \in 0..(n_win - 1), n \in 0..(padded.shape[1] - 1), c \in 0..(padded.shape[4] - 1) :
          LET win == PoolWindow(padded, k, n_cols, pool_size, stride)
              m == WindowMax(padded, win, n, c)
          IN Cardinality({q \in 0..(win.hgt * win.wid - 1) :
                             WindowAt(padded, win, n, q, c) = m}) = 1

AllOnes(t) == \A k \in 1..Size(t) : t.data[k] = 1

\* C5: after a forward that succeeded on an input with a unique maximum in
\* each window, backward on an all-ones gradient returns a tensor that is 1
\* at each window's argmax position and 0 everywhere else.
C5_PoolBackwardRoutesToArgmax ==
    (IsPool /\ call.op = "backward" /\ cache # None /\ AllOnes(bwd_in) /\ UniqueMaxPerWindow) =>
        /\ ~IsRaise(call.ret)
        /\ LET d_in == call.ret
               out_h == cache.out_img_size[1]
               out_w == cache.out_img_size[2]
           IN \A n \in 0..(d_in.shape[1] - 1), h \in 0..(d_in.shape[2] - 1),
                 w \in 0..(d_in.shape[3] - 1), c \in 0..(d_in.shape[4] - 1) :
                 At4(d_in, n, h, w, c) =
                    IF \E i \in 0..(out_h - 1), j \in 0..(out_w - 1) :
                          LET q == At4(cache.max_pos, n, i, j, c)
                          IN /\ h = i * stride[1] + (q \div pool_size[2])
                             /\ w = j * stride[2] + (q % pool_size[2])
                    THEN 1 ELSE 0

\* C6: the tensor returned by MaxPool2D.backward has the shape (N,H,W,C) of
\* the input of the forward before it, under SAME and VALID padding.
C6_PoolBackwardShape ==
    (IsPool /\ BackwardReturned) => call.ret.shape = fwd_in.shape

====
